---- MODULE Spec2Model ----
(***************************************************************************)
(* Model of the encrypted credential vault of src/password_manager.py:     *)
(* the sqlite tables metadata and entries, the processes that open the     *)
(* vault and call add_entry, get_entry, list_services and delete_entry,    *)
(* and the password generator.                                             *)
(*                                                                         *)
(* Strings are sequences of Unicode code points, byte strings sequences    *)
(* of bytes.  PBKDF2 and Fernet are library code and are modelled          *)
(* symbolically: a derived key is the record of the inputs of the          *)
(* derivation, a token is the record of the key and the message it         *)
(* authenticates, and decryption succeeds exactly under the same key.      *)
(***************************************************************************)
EXTENDS Integers, Sequences, FiniteSets, TLC

\* ------------------------------------------------------------------ bounds
MaxClock == 1
MaxLength == 4

\* ------------------------------------------------------- program constants
ITERATIONS == 390000

\* ------------------------------------------------------------ input sets
Procs == {1, 2}
\* "ab", "aB" and "a": code point order is a < aB < ab
Services == {<<97, 98>>, <<97, 66>>, <<97>>}
\* username and raw password of an entry: "p" and "é" are one byte and two
\* bytes in UTF-8
Credentials == {<<"alice", <<112>>>>, <<"alice2", <<233>>>>}
\* "m" and "ñ"
MasterPasswords == {<<109>>, <<241>>}
\* the outcomes of os.urandom(16)
Salts == {1, 2}

VARIABLES
    initialized,   \* the tables of vault.db exist
    metadata,      \* table metadata: a set of rows
    entries,       \* table entries: rows in rowid order
    clock,         \* datetime.utcnow()
    pc,            \* per process: "start", "insert" or "menu"
    pw,            \* per process: master_password of main(), <<>> when none
    fernet,        \* per process: <<>> or <<f>>, f the Fernet of the session
    returned,      \* salts returned by get_or_create_salt so far
    last,          \* the call that completed last, with its result
    stored,        \* per service: <<>>, or <<c>> for the add_entry call c that
                   \* wrote it last and the time of the call that inserted it,
                   \* when no delete_entry followed
    added,         \* per process: add_entry was called since it started
    gen            \* the run of generate_password

vars == <<initialized, metadata, entries, clock, pc, pw, fernet, returned, last, stored, added, gen>>
vaultVars == <<initialized, metadata, entries, clock, pc, pw, fernet, returned, last, stored, added>>

\* ------------------------------------------------------------- str <-> bytes
RECURSIVE Flatten(_)
Flatten(ss) == IF ss = <<>> THEN <<>> ELSE Head(ss) \o Flatten(Tail(ss))

\* one code point to its UTF-8 bytes (code points below 2^11)
EncodeCodePoint(cp) ==
    IF cp < 128 THEN <<cp>>
    ELSE <<192 + (cp \div 64), 128 + (cp % 64)>>

\* str.encode("utf-8")
Utf8Encode(s) == Flatten([i \in 1..Len(s) |-> EncodeCodePoint(s[i])])

\* bytes.decode("utf-8"): <<TRUE, str>>, or <<FALSE, <<>>>> for UnicodeDecodeError
RECURSIVE Utf8Decode(_)
Utf8Decode(b) ==
    IF b = <<>> THEN <<TRUE, <<>>>>
    ELSE IF b[1] < 128
         THEN LET r == Utf8Decode(Tail(b))
              IN  IF r[1] THEN <<TRUE, <<b[1]>> \o r[2]>> ELSE r
    ELSE IF b[1] >= 194 /\ b[1] < 224 /\ Len(b) >= 2 /\ b[2] >= 128 /\ b[2] < 192
         THEN LET r == Utf8Decode(Tail(Tail(b)))
              IN  IF r[1] THEN <<TRUE, <<(b[1] - 192) * 64 + (b[2] - 128)>> \o r[2]>> ELSE r
    ELSE <<FALSE, <<>>>>

\* ------------------------------------------------------------------ crypto
derive_keyNoPassword(master_password, salt) ==
    [b64 |-> [password |-> <<>>, salt |-> salt, iterations |-> ITERATIONS, dklen |-> 32]]

\* derive_key: PBKDF2-HMAC-SHA256 of the encoded password, then base64
derive_key(master_password, salt) ==
    [b64 |-> [password |-> Utf8Encode(master_password), salt |-> salt,
              iterations |-> ITERATIONS, dklen |-> 32]]

\* Fernet(key)
Fernet(key) == [key |-> key.b64]

\* fernet.encrypt(data)
Encrypt(f, data) == [key |-> f.key, msg |-> data]

\* fernet.decrypt(token): <<TRUE, data>>, or <<FALSE, <<>>>> for InvalidToken
Decrypt(f, token) ==
    IF token.key = f.key THEN <<TRUE, token.msg>> ELSE <<FALSE, <<>>>>

\* ---------------------------------------------------------------- database
InsertMetadataNoKey(tbl, row) == <<TRUE, tbl \cup {row}>>

InsertMetadataReplace(tbl, row) == <<TRUE, {row}>>

\* INSERT INTO metadata: <<TRUE, table>>, or <<FALSE, table>> when the
\* PRIMARY KEY of the table rejects the row (sqlite3.IntegrityError)
InsertMetadata(tbl, row) ==
    IF \E r \in tbl : r.id = row.id THEN <<FALSE, tbl>> ELSE <<TRUE, tbl \cup {row}>>

HasRow(tbl, service) == \E i \in 1..Len(tbl) : tbl[i].service = service

RowOf(tbl, service) == tbl[CHOOSE i \in 1..Len(tbl) : tbl[i].service = service]

UpsertAppend(tbl, row) == Append(tbl, row)

UpsertAllRows(tbl, row) ==
    IF HasRow(tbl, row.service)
    THEN [i \in 1..Len(tbl) |->
            [tbl[i] EXCEPT !.username = row.username, !.password = row.password]]
    ELSE Append(tbl, row)

UpsertUsernameOnly(tbl, row) ==
    IF HasRow(tbl, row.service)
    THEN [i \in 1..Len(tbl) |->
            IF tbl[i].service = row.service
            THEN [tbl[i] EXCEPT !.username = row.username]
            ELSE tbl[i]]
    ELSE Append(tbl, row)

UpsertTouch(tbl, row) ==
    IF HasRow(tbl, row.service)
    THEN [i \in 1..Len(tbl) |-> IF tbl[i].service = row.service THEN row ELSE tbl[i]]
    ELSE Append(tbl, row)

\* INSERT INTO entries ... ON CONFLICT(service) DO UPDATE SET username, password
Upsert(tbl, row) ==
    IF HasRow(tbl, row.service)
    THEN [i \in 1..Len(tbl) |->
            IF tbl[i].service = row.service
            THEN [tbl[i] EXCEPT !.username = row.username, !.password = row.password]
            ELSE tbl[i]]
    ELSE Append(tbl, row)

\* SELECT salt FROM metadata WHERE id = 1: the salts of the rows found
SelectSalt(tbl) ==
    IF \E r \in tbl : r.id = 1 THEN <<(CHOOSE r \in tbl : r.id = 1).salt>> ELSE <<>>

\* SELECT ... FROM entries WHERE service = ?
SelectWhere(tbl, service) == SelectSeq(tbl, LAMBDA r : r.service = service)

DeleteAll(tbl, service) == <<>>

\* DELETE FROM entries WHERE service = ?
DeleteWhere(tbl, service) == SelectSeq(tbl, LAMBDA r : r.service # service)

\* cur.rowcount of the DELETE
RowCount(tbl, service) == Len(tbl) - Len(DeleteWhere(tbl, service))

\* the BINARY collation of sqlite on TEXT: code point order, a prefix first
RECURSIVE StrLess(_, _)
StrLess(a, b) ==
    IF b = <<>> THEN FALSE
    ELSE IF a = <<>> THEN TRUE
    ELSE IF a[1] # b[1] THEN a[1] < b[1]
    ELSE StrLess(Tail(a), Tail(b))

RECURSIVE InsertSorted(_, _)
InsertSorted(x, s) ==
    IF s = <<>> THEN <<x>>
    ELSE IF StrLess(x, Head(s)) THEN <<x>> \o s
    ELSE <<Head(s)>> \o InsertSorted(x, Tail(s))

\* ORDER BY service
RECURSIVE OrderBy(_)
OrderBy(s) == IF s = <<>> THEN <<>> ELSE InsertSorted(Head(s), OrderBy(Tail(s)))

SelectServicesUnordered(tbl) == [i \in 1..Len(tbl) |-> tbl[i].service]

\* SELECT service FROM entries ORDER BY service
SelectServices(tbl) == OrderBy([i \in 1..Len(tbl) |-> tbl[i].service])

\* ------------------------------------------------------------ initial state
NoCall == [op |-> "none"]

GenIdle == [pc |-> "idle"]

InitVault ==
    /\ initialized = FALSE
    /\ metadata = {}
    /\ entries = <<>>
    /\ clock = 0
    /\ pc = [p \in Procs |-> "start"]
    /\ pw = [p \in Procs |-> <<>>]
    /\ fernet = [p \in Procs |-> <<>>]
    /\ returned = {}
    /\ last = NoCall
    /\ stored = [s \in Services |-> <<>>]
    /\ added = [p \in Procs |-> FALSE]

Init == InitVault /\ gen = GenIdle

\* ------------------------------------------------------------------ actions
\* the wall clock advances between calls
Tick ==
    /\ clock < MaxClock
    /\ clock' = clock + 1
    /\ UNCHANGED <<initialized, metadata, entries, pc, pw, fernet, returned, last, stored, added, gen>>

\* init_db: CREATE TABLE IF NOT EXISTS for both tables
init_db == initialized' = TRUE

\* main() reads the master password and calls encrypt_password, which runs
\* get_or_create_salt up to its SELECT: with a row the salt is returned and
\* the key derived, without one the process goes on to the INSERT
Open(p, master_password) ==
    /\ pc[p] = "start"
    /\ init_db
    /\ IF SelectSalt(metadata) # <<>>
       THEN LET salt == SelectSalt(metadata)[1]
            IN  /\ fernet' = [fernet EXCEPT ![p] = <<Fernet(derive_key(master_password, salt))>>]
                /\ pc' = [pc EXCEPT ![p] = "menu"]
                /\ returned' = returned \cup {salt}
                /\ last' = [op |-> "open", result |-> "salt", salt |-> salt]
       ELSE /\ pc' = [pc EXCEPT ![p] = "insert"]
            /\ UNCHANGED <<fernet, returned, last>>
    /\ pw' = [pw EXCEPT ![p] = master_password]
    /\ UNCHANGED <<metadata, entries, clock, stored, added, gen>>

\* get_or_create_salt from os.urandom on: INSERT, commit, return; then
\* encrypt_password derives the key.  The INSERT raises when the row exists,
\* and the exception ends the process
InsertSalt(p, salt) ==
    /\ pc[p] = "insert"
    /\ LET ins == InsertMetadata(metadata, [id |-> 1, salt |-> salt, created_at |-> clock])
       IN  IF ins[1]
           THEN /\ metadata' = ins[2]
                /\ fernet' = [fernet EXCEPT ![p] = <<Fernet(derive_key(pw[p], salt))>>]
                /\ pc' = [pc EXCEPT ![p] = "menu"]
                /\ returned' = returned \cup {salt}
                /\ last' = [op |-> "open", result |-> "salt", salt |-> salt]
                /\ UNCHANGED pw
           ELSE /\ pc' = [pc EXCEPT ![p] = "start"]
                /\ pw' = [pw EXCEPT ![p] = <<>>]
                /\ last' = [op |-> "open", result |-> "IntegrityError"]
                /\ UNCHANGED <<metadata, fernet, returned>>
    /\ UNCHANGED <<initialized, entries, clock, stored, added, gen>>

\* add_entry(service, username, raw_password, fernet)
add_entry(p, service, username, raw_password) ==
    /\ pc[p] = "menu"
    /\ init_db
    /\ LET encrypted == Encrypt(fernet[p][1], Utf8Encode(raw_password))
       IN  /\ entries' = Upsert(entries, [service |-> service, username |-> username,
                                           password |-> encrypted, created_at |-> clock])
           /\ last' = [op |-> "add", service |-> service, username |-> username,
                       raw_password |-> raw_password, master_password |-> pw[p],
                       encrypted |-> encrypted, now |-> clock,
                       prev |-> IF stored[service] = <<>> THEN <<>>
                                ELSE <<stored[service][1].username>>,
                       proc |-> p,
                       prevBy |-> IF stored[service] = <<>> THEN 0
                                  ELSE stored[service][1].by,
                       locked |-> fernet[p] = <<>>, raised |-> ""]
           /\ stored' = [stored EXCEPT ![service] =
                            <<[username |-> username, raw_password |-> raw_password,
                               master_password |-> pw[p],
                               encrypted |-> encrypted, by |-> p,
                               inserted_at |-> IF stored[service] = <<>> THEN clock
                                               ELSE stored[service][1].inserted_at]>>]
           /\ added' = [added EXCEPT ![p] = TRUE]
    /\ UNCHANGED <<metadata, clock, pc, pw, fernet, returned, gen>>

GetResultRaw(tbl, service, f) ==
    LET rows == SelectWhere(tbl, service)
    IN  IF rows = <<>> THEN [kind |-> "None"]
        ELSE LET row == rows[1]
                 dec == Decrypt(f, row.password)
             IN  IF ~dec[1] THEN [kind |-> "InvalidToken"]
                 ELSE [kind |-> "Entry", service |-> row.service, username |-> row.username,
                       password |-> dec[2], created_at |-> row.created_at]

\* get_entry(service, fernet): None, an Entry, or InvalidToken raised
GetResult(tbl, service, f) ==
    LET rows == SelectWhere(tbl, service)
    IN  IF rows = <<>> THEN [kind |-> "None"]
        ELSE LET row == rows[1]
                 dec == Decrypt(f, row.password)
                 str == Utf8Decode(dec[2])
             IN  IF ~dec[1] THEN [kind |-> "InvalidToken"]
                 ELSE IF ~str[1] THEN [kind |-> "UnicodeDecodeError"]
                 ELSE [kind |-> "Entry", service |-> row.service, username |-> row.username,
                       password |-> str[2], created_at |-> row.created_at]

get_entry(p, service) ==
    /\ pc[p] = "menu"
    /\ init_db
    /\ last' = [op |-> "get", service |-> service, master_password |-> pw[p],
                result |-> GetResult(entries, service, fernet[p][1]),
                locked |-> fernet[p] = <<>>, raised |-> ""]
    /\ UNCHANGED <<metadata, entries, clock, pc, pw, fernet, returned, stored, added, gen>>

\* list_services()
list_services(p) ==
    /\ pc[p] \in {"start", "menu"}
    /\ init_db
    /\ last' = [op |-> "list", result |-> SelectServices(entries),
                locked |-> fernet[p] = <<>>, raised |-> ""]
    /\ UNCHANGED <<metadata, entries, clock, pc, pw, fernet, returned, stored, added, gen>>

\* delete_entry(service): cur.rowcount > 0
delete_entry(p, service) ==
    /\ pc[p] \in {"start", "menu"}
    /\ init_db
    /\ entries' = DeleteWhere(entries, service)
    /\ last' = [op |-> "delete", service |-> service,
                result |-> (RowCount(entries, service) > 0),
                existed |-> stored[service] # <<>>,
                locked |-> fernet[p] = <<>>, raised |-> ""]
    /\ stored' = [stored EXCEPT ![service] = <<>>]
    /\ UNCHANGED <<metadata, clock, pc, pw, fernet, returned, added, gen>>

\* choice "0" of the menu: the process ends and its key is gone
Exit(p) ==
    /\ pc[p] = "menu"
    /\ pc' = [pc EXCEPT ![p] = "start"]
    /\ pw' = [pw EXCEPT ![p] = <<>>]
    /\ fernet' = [fernet EXCEPT ![p] = <<>>]
    /\ added' = [added EXCEPT ![p] = FALSE]
    /\ UNCHANGED <<initialized, metadata, entries, clock, returned, last, stored, gen>>

\* one process at a time: the sessions of a single user
Next ==
    \/ Tick
    \/ \E m \in MasterPasswords : Open(1, m)
    \/ InsertSalt(1, 1)
    \/ \E s \in Services, c \in Credentials : add_entry(1, s, c[1], c[2])
    \/ \E s \in Services : get_entry(1, s)
    \/ list_services(1)
    \/ \E s \in Services : delete_entry(1, s)
    \/ Exit(1)

Spec == Init /\ [][Next]_vars

\* two processes on the same vault.db, interleaved at the SQL statements
NextConc ==
    \/ \E p \in Procs : Open(p, <<109>>)
    \/ \E p \in Procs, salt \in Salts : InsertSalt(p, salt)
    \/ \E p \in Procs, s \in Services, c \in Credentials : add_entry(p, s, c[1], c[2])
    \/ \E p \in Procs, s \in Services : get_entry(p, s)
    \/ \E p \in Procs : list_services(p)
    \/ \E p \in Procs, s \in Services : delete_entry(p, s)
    \/ \E p \in Procs : Exit(p)

SpecConc == Init /\ [][NextConc]_vars

\* ------------------------------------------------------ generate_password
upper ==
    <<"A", "B", "C", "D", "E", "F", "G", "H", "I", "J", "K", "L", "M", "N", "O", "P", "Q", "R", "S", "T", "U", "V", "W", "X", "Y", "Z">>
lower ==
    <<"a", "b", "c", "d", "e", "f", "g", "h", "i", "j", "k", "l", "m", "n", "o", "p", "q", "r", "s", "t", "u", "v", "w", "x", "y", "z">>
digits ==
    <<"0", "1", "2", "3", "4", "5", "6", "7", "8", "9">>
symbols ==
    <<"!", "@", "#", "$", "%", "^", "&", "*", "(", ")", "-", "_", "=", "+", "[", "]", "{", "}", ";", ":", ",", ".", "<", ">", "/", "?">>

Range(s) == {s[i] : i \in 1..Len(s)}

\* the outcomes of secrets.choice on characters that the model follows: the
\* first and the last character of each class
Sampled == {p[1] : p \in {upper, lower, digits, symbols}}
           \cup {p[Len(p)] : p \in {upper, lower, digits, symbols}}

\* choice(pool), choice(all_chars)
ChoiceChar(s) == Range(s) \cap Sampled

\* the pools list built from the four flags
Pools(use_upper, use_lower, use_digits, use_symbols) ==
    (IF use_upper THEN <<upper>> ELSE <<>>) \o (IF use_lower THEN <<lower>> ELSE <<>>)
    \o (IF use_digits THEN <<digits>> ELSE <<>>) \o (IF use_symbols THEN <<symbols>> ELSE <<>>)

RejectsOffByOne(pools, length) == pools = <<>> \/ length <= Len(pools)

\* the two checks that raise ValueError
Rejects(pools, length) == pools = <<>> \/ length < Len(pools)

SwapLossy(s, a, b) == [s EXCEPT ![a] = s[b]]

\* password_chars[i], password_chars[j] = password_chars[j], password_chars[i]
Swap(s, a, b) == [s EXCEPT ![a] = s[b], ![b] = s[a]]

\* generate_password up to the shuffle: the two checks, one character of
\* each pool, the rest from all_chars
GenCall(length, use_upper, use_lower, use_digits, use_symbols) ==
    /\ gen.pc = "idle"
    /\ LET pools == Pools(use_upper, use_lower, use_digits, use_symbols)
           args == [length |-> length, use_upper |-> use_upper, use_lower |-> use_lower,
                    use_digits |-> use_digits, use_symbols |-> use_symbols]
       IN  IF Rejects(pools, length)
           THEN gen' = [pc |-> "done", args |-> args, raised |-> "ValueError", result |-> <<>>]
           ELSE LET all_chars == Flatten(pools)
                IN  \E seed \in [1..Len(pools) -> Sampled],
                       fill \in [1..(length - Len(pools)) -> ChoiceChar(all_chars)] :
                        /\ \A k \in 1..Len(pools) : seed[k] \in ChoiceChar(pools[k])
                        /\ gen' = [pc |-> "shuffle", args |-> args,
                                   password_chars |-> seed \o fill,
                                   i |-> Len(seed \o fill) - 1]
    /\ UNCHANGED vaultVars

\* one iteration of the shuffle loop: j = choice(range(i + 1)), swap
GenShuffle(j) ==
    /\ gen.pc = "shuffle"
    /\ gen.i >= 1
    /\ j \in 0..gen.i
    /\ gen' = [gen EXCEPT !.password_chars = Swap(gen.password_chars, gen.i + 1, j + 1),
                          !.i = gen.i - 1]
    /\ UNCHANGED vaultVars

\* the loop is over: return "".join(password_chars)
GenReturn ==
    /\ gen.pc = "shuffle"
    /\ gen.i < 1
    /\ gen' = [pc |-> "done", args |-> gen.args, raised |-> "", result |-> gen.password_chars]
    /\ UNCHANGED vaultVars

Lengths == (0 - 1)..MaxLength

NextGen ==
    \/ \E length \in Lengths, uu \in BOOLEAN, ul \in BOOLEAN, ud \in BOOLEAN, us \in BOOLEAN :
          GenCall(length, uu, ul, ud, us)
    \/ \E j \in 0..MaxLength : GenShuffle(j)
    \/ GenReturn

SpecGen == Init /\ [][NextGen]_vars

\* ================================================================== claims
ServicesOf(tbl) == {tbl[i].service : i \in 1..Len(tbl)}

\* C1: the entries table holds at most one row per service name, and right
\* after add_entry the row of the service carries the username and the
\* ciphertext of that call.
C1_OneRowPerService ==
    /\ \A i, j \in 1..Len(entries) : entries[i].service = entries[j].service => i = j
    /\ last.op = "add" =>
          \E i \in 1..Len(entries) :
              /\ entries[i].service = last.service
              /\ entries[i].username = last.username
              /\ entries[i].password = last.encrypted

C1_Witness ==
    /\ last.op = "add"
    /\ last.prev # <<>>
    /\ last.prev[1] # last.username
    /\ Len(entries) >= 2

\* C2 as stated: after add_entry the created_at of the entry is the
\* timestamp of that call, also when the entry existed before.
C2_Original ==
    last.op = "add" => RowOf(entries, last.service).created_at = last.now

\* C2 amended: the upsert preserves the timestamp; the created_at of an
\* entry is the timestamp of the call that inserted it, whatever add_entry
\* calls updated it since.
C2_CreatedAtPreserved ==
    \A s \in Services :
        stored[s] # <<>> =>
            /\ HasRow(entries, s)
            /\ RowOf(entries, s).created_at = stored[s][1].inserted_at

C2_Witness ==
    /\ last.op = "add"
    /\ last.prev # <<>>
    /\ RowOf(entries, last.service).created_at < last.now
    /\ RowOf(entries, last.service).username = last.username

\* C3: under any interleaving of first-run opens, the metadata table never
\* holds more than one row, rows once written stay, and all the salts that
\* get_or_create_salt returned are one and the same persisted salt.
C3_SaltAtomic ==
    /\ [](/\ Cardinality(metadata) <= 1
          /\ Cardinality(returned) <= 1
          /\ returned \subseteq {r.salt : r \in metadata})
    /\ [][metadata \subseteq metadata']_vars

C3_Witness ==
    /\ last.op = "open"
    /\ last.result = "IntegrityError"
    /\ Cardinality(metadata) = 1
    /\ \E p \in Procs : pc[p] = "menu"

\* C4: once a salt was returned the metadata table holds exactly one row,
\* with that salt, no later call changes the table, and every session key
\* is derived from that salt.
C4_SaltImmutable ==
    /\ [](/\ returned # {} => \E r \in metadata : metadata = {r} /\ returned = {r.salt}
          /\ \A p \in Procs :
                fernet[p] # <<>> => \E r \in metadata : fernet[p][1].key.salt = r.salt)
    /\ [][metadata # {} => metadata' = metadata]_vars

C4_Witness ==
    /\ last.op = "open"
    /\ last.result = "salt"
    /\ entries # <<>>
    /\ metadata = {r \in metadata : r.salt = last.salt}
    /\ \A p \in Procs : pc[p] = "menu"

\* C5: get_entry under the master password that stored the entry returns the
\* username and the raw password of the add_entry call that wrote it last,
\* with its creation timestamp, in the same or in a later session.
C5_RoundTrip ==
    (/\ last.op = "get"
     /\ stored[last.service] # <<>>
     /\ stored[last.service][1].master_password = last.master_password)
    => last.result = [kind |-> "Entry", service |-> last.service,
                      username |-> stored[last.service][1].username,
                      password |-> stored[last.service][1].raw_password,
                      created_at |-> stored[last.service][1].inserted_at]

C5_Witness ==
    /\ last.op = "get"
    /\ last.result.kind = "Entry"
    /\ last.result.password = <<233>>
    /\ ~added[1]
    /\ pc[1] = "menu"

\* C6: get_entry under a master password other than the one that stored the
\* entry raises the decryption error (cryptography's InvalidToken, the
\* IntegrityError of the design): no Entry and no None is returned.
C6_WrongPassphrase ==
    (/\ last.op = "get"
     /\ stored[last.service] # <<>>
     /\ stored[last.service][1].master_password # last.master_password)
    => last.result = [kind |-> "InvalidToken"]

C6_Witness ==
    /\ last.op = "get"
    /\ stored[last.service] # <<>>
    /\ stored[last.service][1].master_password # last.master_password
    /\ last.result.kind = "InvalidToken"

\* C7: delete_entry returns whether an entry of the service existed, leaves
\* no row of the service, changes nothing when there was none, and get_entry
\* of a service without entry returns None.
C7_DeleteSemantics ==
    /\ [](/\ last.op = "delete" =>
                /\ last.result = last.existed
                /\ ~HasRow(entries, last.service)
          /\ (last.op = "get" /\ stored[last.service] = <<>>) =>
                last.result = [kind |-> "None"])
    /\ [][(last'.op = "delete" /\ ~last'.existed) => entries' = entries]_vars

C7_Witness ==
    /\ last.op = "delete"
    /\ last.result
    /\ entries # <<>>

\* code point order of two strings, by their first difference
Precedes(a, b) ==
    \E k \in 1..(Len(b)) :
        /\ \A m \in 1..(k - 1) : m <= Len(a) /\ a[m] = b[m]
        /\ k > Len(a) \/ a[k] < b[k]

\* C8: list_services returns the services that have an entry, each once,
\* in increasing code point order.
C8_ListSorted ==
    last.op = "list" =>
        /\ Range(last.result) = ServicesOf(entries)
        /\ Len(last.result) = Cardinality(ServicesOf(entries))
        /\ \A i, j \in 1..Len(last.result) :
              i < j => Precedes(last.result[i], last.result[j])

C8_Witness ==
    /\ last.op = "list"
    /\ Len(last.result) = 3
    /\ last.result # [i \in 1..Len(entries) |-> entries[i].service]

\* the classes the flags select, and their number
SelectedClasses(args) ==
    (IF args.use_upper THEN {upper} ELSE {}) \cup (IF args.use_lower THEN {lower} ELSE {})
    \cup (IF args.use_digits THEN {digits} ELSE {}) \cup (IF args.use_symbols THEN {symbols} ELSE {})

ClassCount(args) == Cardinality(SelectedClasses(args))

Covers(chars, args) ==
    /\ Len(chars) = args.length
    /\ \A i \in 1..Len(chars) : \E c \in SelectedClasses(args) : chars[i] \in Range(c)
    /\ \A c \in SelectedClasses(args) : \E i \in 1..Len(chars) : chars[i] \in Range(c)

\* C9: with at least one class selected and length at least the number of
\* selected classes, generate_password returns a string of that length, of
\* characters of the selected classes, with a character of every selected
\* class, at every point of the shuffle and in the result.
C9_GeneratorCoverage ==
    /\ gen.pc = "shuffle" => Covers(gen.password_chars, gen.args)
    /\ (gen.pc = "done" /\ ClassCount(gen.args) >= 1 /\ gen.args.length >= ClassCount(gen.args))
          => gen.raised = "" /\ Covers(gen.result, gen.args)

C9_Witness ==
    /\ gen.pc = "done"
    /\ gen.raised = ""
    /\ ClassCount(gen.args) = 4
    /\ gen.args.length = 4
    /\ gen.result[1] \notin Range(upper)
    /\ gen.result[4] \in Range(upper)

\* C10: generate_password raises (ValueError, the ConfigurationError of the
\* design) and returns nothing exactly when no class is selected or length
\* is below the number of selected classes.
C10_GeneratorRejects ==
    gen.pc = "done" =>
        /\ (gen.raised = "ValueError") =
              (ClassCount(gen.args) = 0 \/ gen.args.length < ClassCount(gen.args))
        /\ gen.raised \in {"", "ValueError"}
        /\ gen.raised = "ValueError" => gen.result = <<>>

C10_Witness ==
    /\ gen.pc = "done"
    /\ gen.raised = "ValueError"
    /\ gen.args.length = 2
    /\ ClassCount(gen.args) = 4

\* C11 as stated: a call of add_entry, get_entry, list_services or
\* delete_entry by a process that holds no key (locked: encrypt_password has
\* not returned to it) raises IllegalStateError and leaves the entries as
\* they were.
C11_LockedRejected ==
    /\ []((last.op \in {"add", "get", "list", "delete"} /\ last.locked)
              => last.raised = "IllegalStateError")
    /\ [][(last'.op \in {"add", "get", "list", "delete"} /\ last'.locked)
              => entries' = entries]_vars

\* C12: whatever the interleaving of the add_entry calls of the two
\* processes, every service that was written has exactly one row, whose
\* username and ciphertext are both those of one call, the one that
\* committed last, and a service that was not written keeps what it had.
C12_LastWriterWins ==
    \A s \in Services :
        LET rows == {i \in 1..Len(entries) : entries[i].service = s}
        IN  IF stored[s] = <<>> THEN rows = {}
            ELSE /\ Cardinality(rows) = 1
                 /\ \A i \in rows :
                       /\ entries[i].username = stored[s][1].username
                       /\ entries[i].password = stored[s][1].encrypted

C12_Witness ==
    /\ last.op = "add"
    /\ last.prev # <<>>
    /\ last.prevBy # last.proc
    /\ last.prevBy # 0
    /\ last.prev[1] # last.username
    /\ added[1] /\ added[2]
    /\ \E s \in Services : s # last.service /\ stored[s] # <<>>

\* the entry of a service: <<>>, or <<row>>
EntryOf(tbl, s) == SelectSeq(tbl, LAMBDA r : r.service = s)

\* C13: a step changes the entry of a service (its presence, username,
\* ciphertext or created_at) only when it is an add_entry or a delete_entry
\* of that very service; get_entry, list_services and the open change no
\* entry.
C13_Frame ==
    [][\A s \in Services :
          EntryOf(entries', s) # EntryOf(entries, s)
              => last'.op \in {"add", "delete"} /\ last'.service = s]_vars

C13_Witness ==
    /\ last.op = "add"
    /\ last.prev # <<>>
    /\ Len(entries) = 3
    /\ \E i \in 1..Len(entries) :
          /\ entries[i].service # last.service
          /\ entries[i].username # last.username
          /\ entries[i].created_at # RowOf(entries, last.service).created_at

====
